---- MODULE Spec2Model ----
(***************************************************************************)
(* A model of the Redis-compatible server of app/server.go and of its RESP *)
(* codec (package utils).  One node is modelled: its process-wide state    *)
(* (node, cache), one handler (handleClientConn) per connection, and the   *)
(* bytes that cross each socket.  Bytes are one-character strings, a       *)
(* buffer is a sequence of bytes, and Go's 0-based indices are kept.       *)
(***************************************************************************)
EXTENDS Integers, Sequences, FiniteSets, TLC

(***************************************************************************)
(* Bytes and strings                                                       *)
(***************************************************************************)

CR == "\r"
LF == "\n"
CLRF == <<CR, LF>>

SIMPLE_STRING == "+"
RESP_STRING == "$"
INTEGER == ":"
ARRAY == "*"
ERROR == "-"
\* RespType(0), the DataType of the zero value Resp{}
NO_TYPE == "x00"

Digits == <<"0", "1", "2", "3", "4", "5", "6", "7", "8", "9">>

\* unicode.IsDigit(rune(b)) for a byte b
IsDigit(b) == \E d \in 1..10 : Digits[d] = b

\* int(b - '0') for a digit byte b
DigitVal(b) == (CHOOSE d \in 1..10 : Digits[d] = b) - 1

LowerLetters ==
    <<"a", "b", "c", "d", "e", "f", "g", "h", "i", "j", "k", "l", "m",
      "n", "o", "p", "q", "r", "s", "t", "u", "v", "w", "x", "y", "z">>

UpperLetters ==
    <<"A", "B", "C", "D", "E", "F", "G", "H", "I", "J", "K", "L", "M",
      "N", "O", "P", "Q", "R", "S", "T", "U", "V", "W", "X", "Y", "Z">>

\* strings.ToUpper
ToUpper(s) ==
    [x \in 1..Len(s) |->
        IF \E l \in 1..26 : LowerLetters[l] = s[x]
        THEN UpperLetters[CHOOSE l \in 1..26 : LowerLetters[l] = s[x]]
        ELSE s[x]]

\* strings.ToLower
ToLower(s) ==
    [x \in 1..Len(s) |->
        IF \E l \in 1..26 : UpperLetters[l] = s[x]
        THEN LowerLetters[CHOOSE l \in 1..26 : UpperLetters[l] = s[x]]
        ELSE s[x]]

RECURSIVE ItoaNat(_)
ItoaNat(v) ==
    IF v < 10 THEN <<Digits[v + 1]>>
    ELSE ItoaNat(v \div 10) \o <<Digits[(v % 10) + 1]>>

\* strconv.Itoa
Itoa(v) == IF v < 0 THEN <<"-">> \o ItoaNat(0 - v) ELSE ItoaNat(v)

RECURSIVE DigitsValue(_, _)
DigitsValue(s, acc) ==
    IF s = <<>> THEN acc
    ELSE DigitsValue(Tail(s), acc * 10 + DigitVal(Head(s)))

\* strconv.Atoi: [ok |-> err == nil, val |-> the int]; an optional sign, then
\* one or more decimal digits
Atoi(s) ==
    LET body == IF s # <<>> /\ Head(s) \in {"-", "+"} THEN Tail(s) ELSE s
    IN  IF body # <<>> /\ \A x \in 1..Len(body) : IsDigit(body[x])
        THEN [ok |-> TRUE,
              val |-> IF Head(s) = "-" THEN 0 - DigitsValue(body, 0)
                      ELSE DigitsValue(body, 0)]
        ELSE [ok |-> FALSE, val |-> 0]

\* Go's buf[i] and buf[a:b] on a 1-based sequence
At(buf, i) == buf[i + 1]
Slice(buf, a, b) == SubSeq(buf, a + 1, b)

(***************************************************************************)
(* The RESP codec (package utils)                                          *)
(***************************************************************************)

\* Resp{Content, DataType}.  Content is a sequence of bytes (a Go string), a
\* sequence of Resp (a []Resp), or, when nil is TRUE, the nil interface.
Resp(content, dataType) == [Content |-> content, DataType |-> dataType, nil |-> FALSE]
ZeroResp == [Content |-> <<>>, DataType |-> NO_TYPE, nil |-> TRUE]
BulkString(s) == Resp(s, RESP_STRING)

\* the dynamic type of r.Content is string
IsGoString(r) == ~r.nil /\ r.DataType \in {RESP_STRING, SIMPLE_STRING}

\* r.Content == s, for a string constant s: interface equality compares the
\* dynamic type first
ContentIs(r, s) == IsGoString(r) /\ r.Content = s

\* The result (Resp, int, error) of a parse function; panic is TRUE when the
\* call does not return (a slice bound out of range).
ParseResult(resp, n, err) == [resp |-> resp, n |-> n, err |-> err, panic |-> FALSE]
ParsePanic == [resp |-> ZeroResp, n |-> 0, err |-> "", panic |-> TRUE]

\* the first index i >= from with buf[i] not a digit, or len(buf)
RECURSIVE SkipDigits(_, _)
SkipDigits(buf, i) ==
    IF i < Len(buf) /\ IsDigit(At(buf, i)) THEN SkipDigits(buf, i + 1) ELSE i

\* the length header read by the digit loops of parseString and parseArray
HeaderValue(buf) == DigitsValue(Slice(buf, 0, SkipDigits(buf, 0)), 0)

\* the loop of parseSimpleString: it runs while both buf[i] != '\r' and
\* buf[i+1] != '\n'
RECURSIVE SimpleStringScan(_, _)
SimpleStringScan(buf, i) ==
    IF i + 1 < Len(buf) /\ At(buf, i) # CR /\ At(buf, i + 1) # LF
    THEN SimpleStringScan(buf, i + 1)
    ELSE i

\* parseSimpleString(buf), buf the bytes after '+'
parseSimpleString(buf) ==
    LET i == SimpleStringScan(buf, 0) + 1
    IN  IF i - 2 < 0 THEN ParsePanic
        ELSE ParseResult(Resp(Slice(buf, 0, i - 2), SIMPLE_STRING), i + 3, "")

\* parseString(buf), buf the bytes after '$'
parseString(buf) ==
    LET length == HeaderValue(buf)
        i == SkipDigits(buf, 0) + 2
    IN  IF i + length > Len(buf) \/ At(buf, i - 2) # CR \/ At(buf, i - 1) # LF
        THEN ParseResult(Resp(<<>>, RESP_STRING) , 0, "error parsing string. Invalid format")
        ELSE ParseResult(Resp(Slice(buf, i, i + length), RESP_STRING), i + length + 2, "")

\* parseInteger is a stub: the zero Resp, 0 bytes, no error
parseInteger(buf) == ParseResult(ZeroResp, 0, "")

RECURSIVE ParseResp(_)
RECURSIVE parseElements(_, _, _, _)

\* the element loop of parseArray: length elements are still to be read at
\* buf[i:], parsed holds those read
parseElements(buf, i, length, parsed) ==
    IF length <= 0
    THEN ParseResult(Resp(parsed, ARRAY), i + 2, "")
    ELSE IF i > Len(buf) THEN ParsePanic
    ELSE LET e == ParseResp(Slice(buf, i, Len(buf)))
         IN  IF e.panic THEN ParsePanic
             ELSE IF e.err # "" THEN ParseResult(Resp(<<>>, ARRAY), 0, e.err)
             ELSE parseElements(buf, i + e.n + 1, length - 1, Append(parsed, e.resp))

\* parseArray(buf), buf the bytes after '*'
parseArray(buf) ==
    LET length == HeaderValue(buf)
        i == SkipDigits(buf, 0) + 2
    IN  IF i >= Len(buf) \/ At(buf, i - 2) # CR \/ At(buf, i - 1) # LF
        THEN ParseResult(Resp(<<>>, ARRAY), 0, "error parsing array. Invalid format")
        ELSE parseElements(buf, i, length, <<>>)

ParseResp(buf) ==
    IF Len(buf) = 0 THEN ParseResult(ZeroResp, 0, "invalid resp")
    ELSE LET rest == Slice(buf, 1, Len(buf))
         IN  CASE buf[1] = SIMPLE_STRING -> parseSimpleString(rest)
               [] buf[1] = RESP_STRING -> parseString(rest)
               [] buf[1] = INTEGER -> parseInteger(rest)
               [] buf[1] = ARRAY -> parseArray(rest)
               [] OTHER -> ParseResult(ZeroResp, 0, "unsupported operation")

encodeString(val) == <<RESP_STRING>> \o Itoa(Len(val)) \o CLRF \o val \o CLRF
encodeSimpleString(val) == <<SIMPLE_STRING>> \o val \o CLRF
encodeError(val) == <<ERROR>> \o val \o CLRF
encodeInt(val) == <<INTEGER>> \o Itoa(val) \o CLRF

RECURSIVE encodeElements(_)
\* the loop of encodeArray; an element is encoded by EncodeResp, which
\* writes nothing for a DataType it does not know
encodeElements(val) ==
    IF val = <<>> THEN <<>>
    ELSE LET e == Head(val)
         IN  (CASE e.DataType = SIMPLE_STRING -> encodeSimpleString(e.Content)
                [] e.DataType = RESP_STRING -> encodeString(e.Content)
                [] e.DataType = ERROR -> encodeError(e.Content)
                [] e.DataType = INTEGER -> encodeInt(e.Content)
                [] e.DataType = ARRAY ->
                     <<ARRAY>> \o Itoa(Len(e.Content)) \o CLRF \o encodeElements(e.Content)
                [] OTHER -> <<>>)
             \o encodeElements(Tail(val))

encodeArray(val) == <<ARRAY>> \o Itoa(Len(val)) \o CLRF \o encodeElements(val)

RECURSIVE AssertsHold(_)
\* the type assertions of EncodeResp on r and on the elements below it all
\* hold: val.(string), val.(int) and val.([]Resp) panic on the nil interface
AssertsHold(r) ==
    /\ r.DataType \in {SIMPLE_STRING, RESP_STRING, INTEGER, ARRAY, ERROR} => ~r.nil
    /\ r.DataType = ARRAY => \A x \in 1..Len(r.Content) : AssertsHold(r.Content[x])

\* EncodeResp(r.Content, r.DataType): the bytes, or a panic
EncodeResp(r) ==
    IF AssertsHold(r) THEN [panic |-> FALSE, bytes |-> encodeElements(<<r>>)]
    ELSE [panic |-> TRUE, bytes |-> <<>>]

\* EncodeRdb: "$<len>\r\n<content>", no trailing CRLF
EncodeRdb(content) == <<RESP_STRING>> \o Itoa(Len(content)) \o CLRF \o content

EMPTY_RDB ==
    << "R", "E", "D", "I", "S", "0", "0", "1", "1", "xfa", "x09", "r", "e", "d", "i", "s",
       "-", "v", "e", "r", "x05", "7", ".", "2", ".", "0", "xfa", "x0a", "r", "e", "d",
       "i", "s", "-", "b", "i", "t", "s", "xc0", "x40", "xfa", "x05", "c", "t", "i", "m",
       "e", "xc2", "m", "x08", "xbc", "e", "xfa", "x08", "u", "s", "e", "d", "-", "m", "e",
       "m", "xc2", "xb0", "xc4", "x10", "x00", "xfa", "x08", "a", "o", "f", "-", "b", "a",
       "s", "e", "xc0", "x00", "xff", "xf0", "n", "x3b", "xfe", "xc0", "xff", "Z", "xa2" >>

(***************************************************************************)
(* Program constants and the words of the protocol                         *)
(***************************************************************************)

MASTER == "master"
SLAVE == "slave"
\* ENTRY_STRING = iota in the fourth line of its const block
ENTRY_STRING == 3
ENTRY_STREAM == 4

NULL_RESP == <<"$", "-", "1", CR, LF>>

W_PING == <<"P", "I", "N", "G">>
W_PONG == <<"P", "O", "N", "G">>
W_ECHO == <<"E", "C", "H", "O">>
W_GET == <<"G", "E", "T">>
W_SET == <<"S", "E", "T">>
W_PX == <<"P", "X">>
W_TYPE == <<"T", "Y", "P", "E">>
W_XADD == <<"X", "A", "D", "D">>
W_WAIT == <<"W", "A", "I", "T">>
W_PSYNC == <<"P", "S", "Y", "N", "C">>
W_REPLCONF == <<"R", "E", "P", "L", "C", "O", "N", "F">>
W_GETACK == <<"G", "E", "T", "A", "C", "K">>
W_getack == <<"g", "e", "t", "a", "c", "k">>
W_ACK == <<"A", "C", "K">>
W_capa == <<"c", "a", "p", "a">>
W_listening_port ==
    <<"l", "i", "s", "t", "e", "n", "i", "n", "g", "-", "p", "o", "r", "t">>
W_OK == <<"O", "K">>
W_CONFIG == <<"C", "O", "N", "F", "I", "G">>
W_INFO == <<"I", "N", "F", "O">>
W_replication == <<"r", "e", "p", "l", "i", "c", "a", "t", "i", "o", "n">>
W_dir == <<"d", "i", "r">>
W_none == <<"n", "o", "n", "e">>
W_string == <<"s", "t", "r", "i", "n", "g">>
W_stream == <<"s", "t", "r", "e", "a", "m">>
W_FULLRESYNC == <<"F", "U", "L", "L", "R", "E", "S", "Y", "N", "C">>

\* cacheEntryType.String
EntryTypeString(t) ==
    CASE t = ENTRY_STRING -> W_string
      [] t = ENTRY_STREAM -> W_stream
      [] OTHER -> <<>>

\* encodeCmd: a command as an Array of BulkStrings
encodeCmd(words) == encodeArray([x \in 1..Len(words) |-> BulkString(words[x])])

(***************************************************************************)
(* The store: cacheEntry, safeCache                                        *)
(***************************************************************************)

\* time.Time: the zero instant, or a wall-clock instant t (in ms)
ZeroTime == [zero |-> TRUE, t |-> 0]
Instant(t) == [zero |-> FALSE, t |-> t]
\* a.After(b) for instants
After(a, b) == a > b

\* The dynamic type and value held by cacheEntry.value (an `any`): a Go
\* string, a Stream (its entries), or a cacheEntry
NilValue == [kind |-> "nil"]
StringValue(s) == [kind |-> "string", str |-> s]
StreamValue(entries) == [kind |-> "Stream", entries |-> entries]
EntryValue(e) == [kind |-> "cacheEntry", entry |-> e]

cacheEntry(value, exp, entryType) ==
    [value |-> value, exp |-> exp, entryType |-> entryType]

\* safeCache.getKey: (entry, ok); the entry is read only when ok
getKey(stored, key) == [ok |-> key \in DOMAIN stored,
                        entry |-> IF key \in DOMAIN stored THEN stored[key]
                                  ELSE cacheEntry(NilValue, ZeroTime, 0)]

\* setKey, but a deadline the key holds survives a write without one
setKeyKeepsDeadline(stored, key, val, exp, entryType) ==
    [k \in DOMAIN stored \cup {key} |->
        IF k = key
        THEN cacheEntry(val,
                        IF key \in DOMAIN stored /\ exp.zero THEN stored[key].exp
                        ELSE exp,
                        entryType)
        ELSE stored[k]]

\* safeCache.setKey: c.stored[key] = cacheEntry{val, exp, entryType}
setKey(stored, key, val, exp, entryType) ==
    [k \in DOMAIN stored \cup {key} |->
        IF k = key THEN cacheEntry(val, exp, entryType) ELSE stored[k]]

\* safeCache.deleteKey: delete(c.stored, key)
deleteKey(stored, key) == [k \in DOMAIN stored \ {key} |-> stored[k]]

(***************************************************************************)
(* Streams: streamId, Stream                                               *)
(***************************************************************************)

RECURSIVE SplitOn(_, _, _)
\* strings.Split(s, sep) for a one-byte sep: cur is the piece being read
SplitOn(s, sep, cur) ==
    IF s = <<>> THEN <<cur>>
    ELSE IF Head(s) = sep THEN <<cur>> \o SplitOn(Tail(s), sep, <<>>)
    ELSE SplitOn(Tail(s), sep, Append(cur, Head(s)))

\* streamIdFromString: Atoi's errors are dropped, its value is then 0
streamIdFromString(id) ==
    LET splitted == SplitOn(id, "-", <<>>)
    IN  IF Len(splitted) < 2 THEN [msTime |-> 0, sequenceNumber |-> 0]
        ELSE [msTime |-> Atoi(splitted[1]).val,
              sequenceNumber |-> Atoi(splitted[2]).val]

\* Stream.append on the entries of its receiver: ok is err == nil, entries
\* is s.entries when the method returns.  The receiver is a copy: the
\* caller's Stream keeps its length whatever append does.
StreamAppend(entries, input) ==
    LET id == streamIdFromString(input)
        isNil == Len(entries) = 0
        latest == entries[Len(entries)]
    IN  IF isNil
           \/ latest.msTime > id.msTime
           \/ (latest.msTime = id.msTime /\ latest.sequenceNumber < id.sequenceNumber)
        THEN [ok |-> TRUE, entries |-> Append(entries, id)]
        ELSE [ok |-> FALSE, entries |-> entries]

(***************************************************************************)
(* The node and its connection handlers                                    *)
(***************************************************************************)

\* The connections of the node: c1 and c2 are accepted from clients, r1 is
\* accepted from a replica, m is the one the node dialled to its master.
Conns == {"c1", "c2", "r1", "m"}
MasterLink == "m"

\* the fromMaster parameter of handleClientConn
fromMaster(c) == c = MasterLink

\* bounds of the model
MaxReads == 4
MaxTime == 2

VARIABLES
    node,     \* nodeInfo: role, id, offset, replicas
    cache,    \* cache.stored: the Go map, a function on the keys it holds
    mu,       \* cache.RWMutex: the handler that holds it to write, those to read
    now,      \* the wall clock, in ms
    crashed,  \* a goroutine panicked: the process is gone
    pc,       \* where each handler stands
    h,        \* the locals of each handler
    sock,     \* per connection, the writes the node made to it, in order
    reads,    \* history: per connection, what its conn.Read calls returned
    log,      \* history: the commands dispatched, in dispatch order
    fnIn,     \* the argument of the function under test (pure-function runs)
    fnOut     \* its result

vars == <<node, cache, mu, now, crashed, pc, h, sock, reads, log, fnIn, fnOut>>
fnVars == <<fnIn, fnOut>>

\* the zero RWMutex: nobody holds it
Unlocked == [w |-> "", r |-> {}]

\* handler c is inside c.RWMutex.Lock() .. Unlock(), or RLock() .. RUnlock()
Holds(c) == mu.w = c \/ c \in mu.r

\* c.RWMutex.Lock() returns for handler c: nobody else holds the mutex
CanLock(c) == mu.w \in {"", c} /\ mu.r = {}

\* c.RWMutex.RLock() returns for handler c: nobody holds it to write
CanRLock(c) == mu.w = ""

\* Unlock, but the deferred call is missing: the mutex stays held
UnlockMissing(c) == mu

\* defer c.RWMutex.Unlock() / RUnlock() of the safeCache methods: handler c
\* holds the mutex no longer
Unlock(c) == [w |-> IF mu.w = c THEN "" ELSE mu.w, r |-> mu.r \ {c}]

\* the 40 decimal digits of generateRandomId
NodeId == [x \in 1..40 |-> Digits[(x % 10) + 1]]

ZeroEntry == cacheEntry(NilValue, ZeroTime, 0)

\* the locals of a handler that waits in conn.Read
Idle ==
    [buffer |-> <<>>, n |-> 0, nParsed |-> 0, parsed |-> ZeroResp, offset |-> 0,
     out |-> <<>>, reps |-> <<>>, idx |-> 0, tmp |-> 0, stream |-> ZeroEntry]

\* Advance, but nParsed += offset: the frame loop resumes one byte late
AdvanceOneLate(l) ==
    IF ~(l.nParsed < l.n) THEN [pc |-> "read", l |-> Idle, panic |-> FALSE]
    ELSE LET r == ParseResp(Slice(l.buffer, l.nParsed, l.n))
             l1 == [l EXCEPT !.nParsed = @ + r.n]
         IN  IF r.panic THEN [pc |-> "read", l |-> Idle, panic |-> TRUE]
             ELSE IF r.err # "" \/ r.resp.DataType # ARRAY
             THEN [pc |-> "read", l |-> Idle, panic |-> FALSE]
             ELSE [pc |-> "dispatch",
                   l |-> [l1 EXCEPT !.parsed = r.resp, !.offset = r.n,
                                    !.out = <<>>, !.reps = <<>>, !.idx = 0,
                                    !.tmp = 0, !.stream = ZeroEntry],
                   panic |-> FALSE]

\* The head of the frame loop of handleClientConn, run from locals l until a
\* command is to be dispatched or the loop is left: ParseResp on
\* buffer[nParsed:n], nParsed += offset - 1, break on a parse error, and
\* continue on the error handleCommand returns for a frame that is no Array.
RECURSIVE Advance(_)
Advance(l) ==
    IF ~(l.nParsed < l.n) THEN [pc |-> "read", l |-> Idle, panic |-> FALSE]
    ELSE IF l.nParsed < 0 THEN [pc |-> "read", l |-> Idle, panic |-> TRUE]
    ELSE LET r == ParseResp(Slice(l.buffer, l.nParsed, l.n))
             l1 == [l EXCEPT !.nParsed = @ + r.n - 1]
         IN  IF r.panic THEN [pc |-> "read", l |-> Idle, panic |-> TRUE]
             ELSE IF r.err # "" THEN [pc |-> "read", l |-> Idle, panic |-> FALSE]
             ELSE IF r.resp.DataType # ARRAY THEN Advance(l1)
             ELSE [pc |-> "dispatch",
                   l |-> [l1 EXCEPT !.parsed = r.resp, !.offset = r.n,
                                    !.out = <<>>, !.reps = <<>>, !.idx = 0,
                                    !.tmp = 0, !.stream = ZeroEntry],
                   panic |-> FALSE]

\* handler c moves to where a leads
Goto(c, a) ==
    /\ pc' = [pc EXCEPT ![c] = a.pc]
    /\ h' = [h EXCEPT ![c] = a.l]
    /\ crashed' = a.panic

\* handler c moves to label with out as the reply of handleCommand
ReplyWith(c, out) ==
    /\ pc' = [pc EXCEPT ![c] = "reply"]
    /\ h' = [h EXCEPT ![c].out = out]
    /\ crashed' = FALSE

\* a goroutine panics
Panic ==
    /\ crashed' = TRUE
    /\ UNCHANGED <<pc, h>>

\* conn.Write(bytes) on connection c; on a connection that conn.Close()
\* closed it writes nothing and returns an error, which no caller reads
Write(s, c, bytes) ==
    IF bytes = <<>> \/ pc[c] = "closed" THEN s ELSE [s EXCEPT ![c] = Append(@, bytes)]

\* cmd, and the cmd[1:] handed to the handlers
Cmd(c) == h[c].parsed.Content
Args(c) == Tail(Cmd(c))

\* the command of c has n arguments that are Go strings: its handler goes on
\* to the store
StoreArgs(c, n) ==
    /\ Len(Args(c)) >= n
    /\ \A x \in 1..n : IsGoString(Args(c)[x])

\* the case of handleCommand's switch that the command of c selects
Dispatching(c, name) ==
    /\ ~crashed
    /\ pc[c] = "dispatch"
    /\ Len(Cmd(c)) > 0
    /\ IsGoString(Cmd(c)[1])
    /\ ToUpper(Cmd(c)[1].Content) = name

\* the expiration handleCommandSet computes from cmd at instant t
SetExp(cmd, t) ==
    IF Len(cmd) >= 4 /\ cmd[4].DataType = RESP_STRING /\ Atoi(cmd[4].Content).ok
    THEN Instant(t + Atoi(cmd[4].Content).val)
    ELSE ZeroTime

\* the history with the command of c added; t is the instant the command
\* met the clock, 0 for a command that does not read it
LoggedAt(c, t) == Append(log, [conn |-> c, cmd |-> Cmd(c), t |-> t])
Logged(c) == LoggedAt(c, 0)

RECURSIVE ReadCount(_)
\* the number of conn.Read calls that returned on the connections in cs
ReadCount(cs) ==
    IF cs = {} THEN 0
    ELSE LET c == CHOOSE x \in cs : TRUE
         IN  Len(reads[c]) + ReadCount(cs \ {c})

\* conn.Read returns data: the loop of handleClientConn starts on it
Read(c, data) ==
    /\ ~crashed
    /\ pc[c] = "read"
    /\ ReadCount(Conns) < MaxReads
    /\ reads' = [reads EXCEPT ![c] = Append(@, data)]
    /\ Goto(c, Advance([Idle EXCEPT !.buffer = data, !.n = Len(data)]))
    /\ UNCHANGED <<node, cache, mu, now, sock, log, fnVars>>

\* conn.Read returns an error (the peer went away): handleClientConn
\* returns and its deferred conn.Close() runs
ReadFails(c) ==
    /\ ~crashed
    /\ pc[c] = "read"
    /\ pc' = [pc EXCEPT ![c] = "closed"]
    /\ UNCHANGED <<node, cache, mu, now, crashed, h, sock, reads, log, fnVars>>

\* the frame handleCommandSet fans out
Bcast(cmd) == encodeArray(<<BulkString(W_SET)>> \o cmd)

\* handleCommandSet up to cache.setKey
HandleSet(c) ==
    /\ Dispatching(c, W_SET)
    /\ log' = LoggedAt(c, IF SetExp(Args(c), now).zero THEN 0 ELSE now)
    /\ LET cmd == Args(c)
       IN  IF Len(cmd) < 2
           THEN /\ Goto(c, Advance(h[c]))
                /\ UNCHANGED <<cache, mu>>
           ELSE IF ~IsGoString(cmd[1]) \/ ~IsGoString(cmd[2])
           THEN Panic /\ UNCHANGED <<cache, mu>>
           ELSE /\ CanLock(c)
                /\ cache' = setKey(cache, cmd[1].Content, StringValue(cmd[2].Content),
                                   SetExp(cmd, now), ENTRY_STRING)
                /\ mu' = Unlock(c)
                /\ IF node.role = MASTER
                   THEN /\ pc' = [pc EXCEPT ![c] = "bcast"]
                        /\ UNCHANGED <<h, crashed>>
                   ELSE ReplyWith(c, encodeSimpleString(W_OK))
    /\ UNCHANGED <<node, now, sock, reads, fnVars>>

\* handleCommandSet: `range node.replicas` evaluates the slice once
FanoutBegin(c) ==
    /\ ~crashed
    /\ pc[c] = "bcast"
    /\ IF Len(node.replicas) = 0
       THEN ReplyWith(c, encodeSimpleString(W_OK))
       ELSE /\ pc' = [pc EXCEPT ![c] = "fanout"]
            /\ h' = [h EXCEPT ![c].reps = node.replicas, ![c].idx = 1]
            /\ UNCHANGED crashed
    /\ UNCHANGED <<node, cache, mu, now, sock, reads, log, fnVars>>

\* FanoutWrite, but the loop ends at the first write that fails
FanoutWriteStopsAtFailure(c) ==
    /\ ~crashed
    /\ pc[c] = "fanout"
    /\ sock' = Write(sock, h[c].reps[h[c].idx], Bcast(Args(c)))
    /\ IF h[c].idx = Len(h[c].reps) \/ pc[h[c].reps[h[c].idx]] = "closed"
       THEN ReplyWith(c, encodeSimpleString(W_OK))
       ELSE /\ h' = [h EXCEPT ![c].idx = @ + 1]
            /\ UNCHANGED <<pc, crashed>>
    /\ UNCHANGED <<node, cache, mu, now, reads, log, fnVars>>

\* handleCommandSet: one replica.Write(bcast) of the fanout loop
FanoutWrite(c) ==
    /\ ~crashed
    /\ pc[c] = "fanout"
    /\ sock' = Write(sock, h[c].reps[h[c].idx], Bcast(Args(c)))
    /\ IF h[c].idx = Len(h[c].reps)
       THEN ReplyWith(c, encodeSimpleString(W_OK))
       ELSE /\ h' = [h EXCEPT ![c].idx = @ + 1]
            /\ UNCHANGED <<pc, crashed>>
    /\ UNCHANGED <<node, cache, mu, now, reads, log, fnVars>>

\* replicaMustRespond.  cmd[1] is read only when cmd[0] is REPLCONF, and
\* handleCommandReplConfig panicked before on a REPLCONF without arguments.
replicaMustRespond(input) ==
    /\ input.DataType = ARRAY
    /\ Len(input.Content) >= 2
    /\ ContentIs(input.Content[1], W_REPLCONF)
    /\ ContentIs(input.Content[2], W_GETACK)

\* handleClientConn after handleCommand returned out: the gated conn.Write,
\* and on a replica the load of node.offset for `node.offset += offset - 1`
Reply(c) ==
    /\ ~crashed
    /\ pc[c] = "reply"
    /\ sock' = IF ~fromMaster(c) \/ replicaMustRespond(h[c].parsed)
               THEN Write(sock, c, h[c].out)
               ELSE sock
    /\ IF node.role = SLAVE
       THEN /\ pc' = [pc EXCEPT ![c] = "offset_store"]
            /\ h' = [h EXCEPT ![c].tmp = node.offset]
            /\ UNCHANGED crashed
       ELSE Goto(c, Advance(h[c]))
    /\ UNCHANGED <<node, cache, mu, now, reads, log, fnVars>>

\* the store of `node.offset += offset - 1`, which no lock guards
OffsetStore(c) ==
    /\ ~crashed
    /\ pc[c] = "offset_store"
    /\ node' = [node EXCEPT !.offset = h[c].tmp + h[c].offset - 1]
    /\ Goto(c, Advance(h[c]))
    /\ UNCHANGED <<cache, mu, now, sock, reads, log, fnVars>>

\* the wall clock advances
Tick ==
    /\ ~crashed
    /\ now < MaxTime
    /\ now' = now + 1
    /\ UNCHANGED <<node, cache, mu, crashed, pc, h, sock, reads, log, fnVars>>

\* handleCommandGet up to the test of the deadline
HandleGet(c) ==
    /\ Dispatching(c, W_GET)
    /\ log' = LoggedAt(c, now)
    /\ LET cmd == Args(c)
           got == getKey(cache, cmd[1].Content)
           stored == got.entry
       IN  IF Len(cmd) < 1 THEN Goto(c, Advance(h[c]))
           ELSE IF ~IsGoString(cmd[1]) THEN Panic
           ELSE IF ~got.ok THEN ReplyWith(c, NULL_RESP)
           ELSE IF ~stored.exp.zero /\ After(now, stored.exp.t)
           THEN /\ pc' = [pc EXCEPT ![c] = "expire"]
                /\ UNCHANGED <<h, crashed>>
           \* EncodeResp(stored.value, STRING) asserts stored.value.(string)
           ELSE IF stored.value.kind # "string" THEN Panic
           ELSE ReplyWith(c, encodeString(stored.value.str))
    /\ IF StoreArgs(c, 1) THEN CanRLock(c) /\ mu' = Unlock(c) ELSE mu' = mu
    /\ UNCHANGED <<node, cache, now, sock, reads, fnVars>>

\* handleCommandGet: cache.deleteKey(key) of the entry seen past its deadline
ExpireDelete(c) ==
    /\ ~crashed
    /\ pc[c] = "expire"
    /\ CanLock(c)
    /\ cache' = deleteKey(cache, Args(c)[1].Content)
    /\ mu' = Unlock(c)
    /\ ReplyWith(c, NULL_RESP)
    /\ UNCHANGED <<node, now, sock, reads, log, fnVars>>

\* handleCommandType
HandleType(c) ==
    /\ Dispatching(c, W_TYPE)
    /\ log' = Logged(c)
    /\ LET cmd == Args(c)
           got == getKey(cache, cmd[1].Content)
       IN  IF Len(cmd) < 1 \/ ~IsGoString(cmd[1]) THEN Panic
           ELSE IF ~got.ok THEN ReplyWith(c, encodeSimpleString(W_none))
           ELSE ReplyWith(c, encodeString(EntryTypeString(got.entry.entryType)))
    /\ IF StoreArgs(c, 1) THEN CanRLock(c) /\ mu' = Unlock(c) ELSE mu' = mu
    /\ UNCHANGED <<node, cache, now, sock, reads, fnVars>>

\* the reply line of handleCommandSync
Resync == encodeSimpleString(W_FULLRESYNC \o <<" ">> \o node.id \o <<" ">>
                             \o Itoa(node.offset))

\* HandleSync, but a failed conn.Write(resync) does not end the command
HandleSyncAppendsAnyway(c) ==
    /\ Dispatching(c, W_PSYNC)
    /\ log' = Logged(c)
    /\ \/ sock' = Write(sock, c, Resync)
       \/ sock' = sock
    /\ pc' = [pc EXCEPT ![c] = "sync_append"]
    /\ h' = [h EXCEPT ![c].reps = node.replicas]
    /\ UNCHANGED <<node, cache, mu, now, crashed, reads, fnVars>>

\* handleCommandSync up to the load of node.replicas: conn.Write(resync),
\* then the slice that append extends is read; no lock guards it.  When
\* conn.Write returns an error the command ends with it, before the append.
HandleSync(c) ==
    /\ Dispatching(c, W_PSYNC)
    /\ log' = Logged(c)
    /\ \/ /\ sock' = Write(sock, c, Resync)
          /\ pc' = [pc EXCEPT ![c] = "sync_append"]
          /\ h' = [h EXCEPT ![c].reps = node.replicas]
          /\ UNCHANGED crashed
       \/ /\ sock' = sock
          /\ Goto(c, Advance(h[c]))
    /\ UNCHANGED <<node, cache, mu, now, reads, fnVars>>

\* handleCommandSync: node.replicas = append(node.replicas, conn), and the
\* RDB frame is returned as the reply
SyncAppend(c) ==
    /\ ~crashed
    /\ pc[c] = "sync_append"
    /\ node' = [node EXCEPT !.replicas = Append(h[c].reps, c)]
    /\ ReplyWith(c, EncodeRdb(EMPTY_RDB))
    /\ UNCHANGED <<cache, mu, now, sock, reads, log, fnVars>>

\* the entry handleCommandStreamAdd builds for a key the store lacks
NewStream == cacheEntry(StreamValue(<<>>), ZeroTime, ENTRY_STREAM)

\* handleCommandStreamAdd from `stream.value.(Stream).append(id)` on: the
\* assertion panics unless the value is a Stream; what append returns and
\* the entries it built are dropped
StreamAddTail(c, stream) ==
    IF stream.value.kind # "Stream" THEN Panic
    ELSE ReplyWith(c, encodeString(Args(c)[2].Content))

\* handleCommandStreamAdd up to cache.getKey
HandleStreamAdd(c) ==
    /\ Dispatching(c, W_XADD)
    /\ log' = Logged(c)
    /\ LET cmd == Args(c)
           got == getKey(cache, cmd[1].Content)
       IN  IF Len(cmd) < 2 THEN Goto(c, Advance(h[c]))
           ELSE IF ~IsGoString(cmd[1]) \/ ~IsGoString(cmd[2]) THEN Panic
           ELSE IF ~got.ok
           THEN /\ pc' = [pc EXCEPT ![c] = "xadd_set"]
                /\ h' = [h EXCEPT ![c].stream = NewStream]
                /\ UNCHANGED crashed
           ELSE StreamAddTail(c, got.entry)
    /\ IF StoreArgs(c, 2) THEN CanRLock(c) /\ mu' = Unlock(c) ELSE mu' = mu
    /\ UNCHANGED <<node, cache, now, sock, reads, fnVars>>

\* handleCommandStreamAdd: cache.setKey(key, stream, time.Time{}, ENTRY_STREAM)
\* stores the cacheEntry `stream` itself as the value of the new entry
StreamAddSet(c) ==
    /\ ~crashed
    /\ pc[c] = "xadd_set"
    /\ CanLock(c)
    /\ cache' = setKey(cache, Args(c)[1].Content, EntryValue(h[c].stream),
                       ZeroTime, ENTRY_STREAM)
    /\ mu' = Unlock(c)
    /\ StreamAddTail(c, h[c].stream)
    /\ UNCHANGED <<node, now, sock, reads, log, fnVars>>

\* handleCommand: case "PING"
HandlePing(c) ==
    /\ Dispatching(c, W_PING)
    /\ log' = Logged(c)
    /\ ReplyWith(c, encodeSimpleString(W_PONG))
    /\ UNCHANGED <<node, cache, mu, now, sock, reads, fnVars>>

\* handleCommand: case "ECHO"; cmd[1] is read whatever len(cmd) is
HandleEcho(c) ==
    /\ Dispatching(c, W_ECHO)
    /\ log' = Logged(c)
    /\ IF Len(Cmd(c)) < 2 \/ ~IsGoString(Cmd(c)[2]) THEN Panic
       ELSE ReplyWith(c, encodeString(Cmd(c)[2].Content))
    /\ UNCHANGED <<node, cache, mu, now, sock, reads, fnVars>>

\* the config map initializeServer fills from the flags: started with
\* --dir /tmp
config == [flag \in {W_dir} |-> <<"/", "t", "m", "p">>]

\* handleCommandConfig
HandleConfig(c) ==
    /\ Dispatching(c, W_CONFIG)
    /\ log' = Logged(c)
    /\ LET cmd == Args(c)
       IN  IF Len(cmd) < 2 \/ ~ContentIs(cmd[1], W_GET) THEN ReplyWith(c, NULL_RESP)
           ELSE IF ~IsGoString(cmd[2]) THEN Panic
           ELSE IF cmd[2].Content \notin DOMAIN config THEN ReplyWith(c, NULL_RESP)
           ELSE ReplyWith(c, encodeArray(<<cmd[2], BulkString(config[cmd[2].Content])>>))
    /\ UNCHANGED <<node, cache, mu, now, sock, reads, fnVars>>

\* the text handleCommandInfo builds with fmt.Sprintf
InfoText ==
    <<"r", "o", "l", "e", ":">> \o (IF node.role = MASTER THEN <<"m", "a", "s", "t", "e", "r">> ELSE <<"s", "l", "a", "v", "e">>) \o <<LF>>
        \o (IF node.role = MASTER
            THEN <<"m", "a", "s", "t", "e", "r", "_", "r", "e", "p", "l", "i", "d", ":">> \o node.id \o <<LF>>
                     \o <<"m", "a", "s", "t", "e", "r", "_", "r", "e", "p", "l", "_", "o", "f", "f", "s", "e", "t", ":">> \o Itoa(node.offset) \o <<LF>>
            ELSE <<>>)

\* handleCommandInfo
HandleInfo(c) ==
    /\ Dispatching(c, W_INFO)
    /\ log' = Logged(c)
    /\ LET cmd == Args(c)
       IN  IF Len(cmd) = 0 \/ ~ContentIs(cmd[1], W_replication) THEN ReplyWith(c, NULL_RESP)
           ELSE ReplyWith(c, encodeString(InfoText))
    /\ UNCHANGED <<node, cache, mu, now, sock, reads, fnVars>>

\* handleCommandWait: the length of node.replicas as an Integer
HandleWait(c) ==
    /\ Dispatching(c, W_WAIT)
    /\ log' = Logged(c)
    /\ ReplyWith(c, encodeInt(Len(node.replicas)))
    /\ UNCHANGED <<node, cache, mu, now, sock, reads, fnVars>>

\* handleCommandReplConfig
HandleReplConfig(c) ==
    /\ Dispatching(c, W_REPLCONF)
    /\ log' = Logged(c)
    /\ LET cmd == Args(c)
           subCmd == ToLower(cmd[1].Content)
       IN  IF Len(cmd) < 1 \/ ~IsGoString(cmd[1]) THEN Panic
           ELSE IF subCmd = W_listening_port \/ subCmd = W_capa
           THEN ReplyWith(c, encodeSimpleString(W_OK))
           ELSE IF subCmd = W_getack
           THEN ReplyWith(c, encodeArray(<<BulkString(W_REPLCONF), BulkString(W_ACK),
                                           BulkString(Itoa(node.offset))>>))
           ELSE ReplyWith(c, <<>>)
    /\ UNCHANGED <<node, cache, mu, now, sock, reads, fnVars>>

\* the command names handleCommand knows
KnownCommands ==
    {W_PING, W_ECHO, W_GET, W_SET, W_CONFIG, W_INFO, W_REPLCONF, W_PSYNC, W_WAIT,
     W_TYPE, W_XADD}

\* handleCommand: default, (nil, nil)
HandleUnknown(c) ==
    /\ ~crashed
    /\ pc[c] = "dispatch"
    /\ Len(Cmd(c)) > 0
    /\ IsGoString(Cmd(c)[1])
    /\ ToUpper(Cmd(c)[1].Content) \notin KnownCommands
    /\ log' = Logged(c)
    /\ ReplyWith(c, <<>>)
    /\ UNCHANGED <<node, cache, mu, now, sock, reads, fnVars>>

(***************************************************************************)
(* Replication on a master: two clients and one connecting replica         *)
(***************************************************************************)

KeyK == <<"k">>
KeyJ == <<"j">>
ValV == <<"v">>
ValW == <<"w">>

\* the state once main has set up the node; the handlers of the
\* connections in open wait in conn.Read
InitNode(role, open) ==
    /\ node = [role |-> role, id |-> IF role = MASTER THEN NodeId ELSE <<>>,
               offset |-> 0, replicas |-> <<>>]
    /\ cache = [k \in {} |-> ZeroEntry]
    /\ mu = Unlocked
    /\ now = 0
    /\ crashed = FALSE
    /\ pc = [c \in Conns |-> IF c \in open THEN "read" ELSE "off"]
    /\ h = [c \in Conns |-> Idle]
    /\ sock = [c \in Conns |-> <<>>]
    /\ reads = [c \in Conns |-> <<>>]
    /\ log = <<>>

\* no function is under test
NoCall ==
    /\ fnIn = <<>>
    /\ fnOut = <<>>

\* what the peer of connection c may send in one read
MasterInputs(c) ==
    CASE c = "c1" -> {encodeCmd(<<W_SET, KeyK, ValV>>)}
      [] c = "c2" -> {encodeCmd(<<W_SET, KeyK, ValW>>),
                      encodeCmd(<<W_SET, KeyJ, ValW>>)}
      [] c = "r1" -> {encodeCmd(<<W_PSYNC, <<"?">>, <<"-", "1">>>>)}
      [] OTHER -> {}

Init == InitNode(MASTER, {"c1", "c2", "r1"}) /\ NoCall

MasterRead == \E c \in Conns : \E data \in MasterInputs(c) : Read(c, data)

Next ==
    \/ MasterRead
    \/ \E c \in Conns : HandleSet(c)
    \/ \E c \in Conns : FanoutBegin(c)
    \/ \E c \in Conns : FanoutWrite(c)
    \/ \E c \in Conns : HandleSync(c)
    \/ \E c \in Conns : SyncAppend(c)
    \/ \E c \in Conns : Reply(c)

Spec == Init /\ [][Next]_vars

(***************************************************************************)
(* The store of a master without replicas: two clients and the clock       *)
(***************************************************************************)

StoreInputs(c) ==
    CASE c = "c1" -> {encodeCmd(<<W_SET, KeyK, ValV, W_PX, <<"1">>>>),
                      encodeCmd(<<W_SET, KeyK, ValV>>),
                      encodeCmd(<<W_GET, KeyK>>),
                      encodeCmd(<<W_TYPE, KeyK>>)}
      [] c = "c2" -> {encodeCmd(<<W_SET, KeyK, ValW>>),
                      encodeCmd(<<W_SET, KeyJ, ValW, W_PX, <<"1">>>>),
                      encodeCmd(<<W_GET, KeyK>>)}
      [] OTHER -> {}

InitStore == InitNode(MASTER, {"c1", "c2"}) /\ NoCall

StoreRead == \E c \in Conns : \E data \in StoreInputs(c) : Read(c, data)

NextStore ==
    \/ StoreRead
    \/ \E c \in Conns : HandleSet(c)
    \/ \E c \in Conns : FanoutBegin(c)
    \/ \E c \in Conns : HandleGet(c)
    \/ \E c \in Conns : ExpireDelete(c)
    \/ \E c \in Conns : HandleType(c)
    \/ \E c \in Conns : Reply(c)
    \/ Tick

SpecStore == InitStore /\ [][NextStore]_vars

(***************************************************************************)
(* Reading the history                                                     *)
(***************************************************************************)

\* entry e of the history is the command name with at least n arguments
IsCommand(e, name, n) ==
    /\ Len(e.cmd) >= n + 1
    /\ IsGoString(e.cmd[1])
    /\ ToUpper(e.cmd[1].Content) = name

\* entry e is a SET that reached the store, on key
IsSetOn(e, key) == IsCommand(e, W_SET, 2) /\ e.cmd[2].Content = key

\* the index of the last entry among the first n that satisfies Test, or 0
LastIndex(n, Test(_)) ==
    IF \E x \in 1..n : Test(log[x])
    THEN CHOOSE x \in 1..n : Test(log[x]) /\ \A y \in (x + 1)..n : ~Test(log[y])
    ELSE 0

\* the index of the command that handler c is working on
Current(c) == LastIndex(Len(log), LAMBDA e : e.conn = c)

RECURSIVE IsSubseq(_, _)
\* a is b with some elements left out
IsSubseq(a, b) ==
    IF a = <<>> THEN TRUE
    ELSE IF b = <<>> THEN FALSE
    ELSE IF Head(a) = Head(b) THEN IsSubseq(Tail(a), Tail(b))
    ELSE IsSubseq(a, Tail(b))

\* the frames of the SETs applied to the store, in the order of setKey
AppliedFrames ==
    LET sets == SelectSeq(log, LAMBDA e : IsCommand(e, W_SET, 2))
    IN  [x \in 1..Len(sets) |-> Bcast(Tail(sets[x].cmd))]

\* the command frames among the writes to connection r
FannedFrames(r) == SelectSeq(sock[r], LAMBDA b : b[1] = ARRAY)

(***************************************************************************)
(* C1, C2: replication on the master                                       *)
(***************************************************************************)

\* C1: every replica socket receives the SET frames in the order in which
\* the SETs were applied to the master's store.
C1_FanoutOrder == \A r \in Conns : IsSubseq(FannedFrames(r), AppliedFrames)

\* C2: no fanned-out SET frame is written to a replica's socket before the
\* RDB snapshot frame of its PSYNC.
C2_NoSetBeforeRdb ==
    \A r \in Conns : \A x \in 1..Len(sock[r]) :
        sock[r][x][1] = ARRAY =>
            \E y \in 1..(x - 1) : sock[r][y] = EncodeRdb(EMPTY_RDB)

(***************************************************************************)
(* A replica: the link to its master and one client                        *)
(***************************************************************************)

\* "+FULLRESYNC <id> 0\r\n" and the RDB frame, as a master sends them
MasterResync == encodeSimpleString(W_FULLRESYNC \o <<" ">> \o NodeId \o <<" ", "0">>)
MasterRdb == EncodeRdb(EMPTY_RDB)

GetAckFrame == encodeCmd(<<W_REPLCONF, W_GETACK, <<"*">>>>)

ReplicaInputs(c) ==
    CASE c = MasterLink -> {MasterResync \o MasterRdb,
                            encodeCmd(<<W_SET, KeyK, ValV>>),
                            encodeCmd(<<W_PING>>),
                            GetAckFrame,
                            encodeCmd(<<<<"D", "E", "L">>, KeyK>>),
                            encodeCmd(<<W_PSYNC, <<"?">>, <<"-", "1">>>>)}
      [] c = "c1" -> {encodeCmd(<<W_SET, KeyJ, ValW>>),
                      encodeCmd(<<W_GET, KeyK>>),
                      encodeCmd(<<W_PING>>)}
      [] OTHER -> {}

InitReplica == InitNode(SLAVE, {MasterLink, "c1"}) /\ NoCall

ReplicaRead == \E c \in Conns : \E data \in ReplicaInputs(c) : Read(c, data)

NextReplica ==
    \/ ReplicaRead
    \/ \E c \in Conns : HandleSet(c)
    \/ \E c \in Conns : HandleGet(c)
    \/ \E c \in Conns : HandlePing(c)
    \/ \E c \in Conns : HandleReplConfig(c)
    \/ \E c \in Conns : HandleUnknown(c)
    \/ \E c \in Conns : HandleSync(c)
    \/ \E c \in Conns : SyncAppend(c)
    \/ \E c \in Conns : Reply(c)
    \/ \E c \in Conns : OffsetStore(c)

SpecReplica == InitReplica /\ [][NextReplica]_vars

(***************************************************************************)
(* C3 .. C6: the replica's master link                                     *)
(***************************************************************************)

\* the REPLCONF ACK reply that reports offset n
AckFrame(n) ==
    encodeArray(<<BulkString(W_REPLCONF), BulkString(W_ACK), BulkString(Itoa(n))>>)

\* the bytes "*3\r\n$8\r\nREPLCONF\r\n$3\r\nACK\r\n" that open every ACK reply
AckHead == encodeArray(<<BulkString(W_REPLCONF), BulkString(W_ACK)>>)

IsAckReply(b) ==
    /\ Len(b) > Len(AckHead)
    /\ SubSeq(b, 2, 2) = <<"3">>
    /\ SubSeq(b, 3, Len(AckHead)) = SubSeq(AckHead, 3, Len(AckHead))

\* the number of commands of connection c in the history
Dispatched(c) == Len(SelectSeq(log, LAMBDA e : e.conn = c))

\* C3: on the master link the replica writes nothing but replies to REPLCONF
\* GETACK; a SET received there reaches the store; on a client connection
\* every handled command has its reply written.
C3_ReplyGating ==
    /\ \A x \in 1..Len(sock[MasterLink]) : IsAckReply(sock[MasterLink][x])
    /\ \A x \in 1..Len(log) :
          (log[x].conn = MasterLink /\ IsCommand(log[x], W_SET, 2))
              => log[x].cmd[2].Content \in DOMAIN cache
    /\ \A c \in Conns \ {MasterLink} :
          Len(sock[c]) = Dispatched(c) - (IF pc[c] = "reply" THEN 1 ELSE 0)

RECURSIVE FrameBytes(_)
\* the sum of the byte lengths of the frames of the commands in entries
FrameBytes(entries) ==
    IF entries = <<>> THEN 0
    ELSE Len(encodeArray(Head(entries).cmd)) + FrameBytes(Tail(entries))

\* the bytes of the command frames handled on the master link before the
\* command it is working on
ReplicatedBefore ==
    FrameBytes(SelectSeq(SubSeq(log, 1, Current(MasterLink) - 1),
                         LAMBDA e : e.conn = MasterLink))

\* C4: the offset reported in REPLCONF ACK is the sum of the byte lengths of
\* the command frames processed on the master link before this GETACK.
C4_AckOffset ==
    (pc[MasterLink] = "reply" /\ replicaMustRespond(h[MasterLink].parsed))
        => h[MasterLink].out = AckFrame(ReplicatedBefore)

\* C5: a step of the handler of a client connection leaves node.offset as it is.
C5_OffsetOnlyOnMasterLink ==
    [][\A c \in Conns \ {MasterLink} :
          pc'[c] # pc[c] => node'.offset = node.offset]_vars

\* C6: no step makes node.offset smaller.
C6_OffsetMonotonic == [][node'.offset >= node.offset]_vars

(***************************************************************************)
(* C7, C8: the store                                                       *)
(***************************************************************************)

\* SET entry e of the history carries a PX argument that is a number
HasPx(e) == Len(e.cmd) >= 5 /\ Atoi(e.cmd[5].Content).ok

\* the deadline of SET entry e: the instant it was handled plus its PX
Deadline(e) == e.t + Atoi(e.cmd[5].Content).val

\* the index of the last SET on key among the first n entries, or 0
LastSetOn(key, n) == LastIndex(n, LAMBDA e : IsSetOn(e, key))

\* the GET at index g of the history came after the deadline of the SET
\* that last wrote its key
PastDeadline(g) ==
    LET s == LastSetOn(log[g].cmd[2].Content, g - 1)
    IN  s > 0 /\ HasPx(log[s]) /\ log[g].t > Deadline(log[s])

\* C7: a GET replies the value of the last SET on its key when that SET had
\* no PX or its deadline has not passed; past the deadline it replies the
\* null bulk string and the entry is gone, and a TYPE that follows replies
\* none.
C7_ExpirationOnGet ==
    \A c \in Conns :
        pc[c] = "reply" =>
            LET x == Current(c)
                key == log[x].cmd[2].Content
                s == LastSetOn(key, x - 1)
                p == LastIndex(x - 1, LAMBDA e : e.conn = c)
            IN  /\ (IsCommand(log[x], W_GET, 1) /\ s > 0) =>
                      IF PastDeadline(x)
                      THEN /\ h[c].out = NULL_RESP
                           /\ key \notin DOMAIN cache \/ LastSetOn(key, Len(log)) > x
                      ELSE h[c].out = encodeString(log[s].cmd[3].Content)
                /\ (/\ IsCommand(log[x], W_TYPE, 1)
                    /\ p > 0
                    /\ IsCommand(log[p], W_GET, 1)
                    /\ log[p].cmd[2].Content = key
                    /\ PastDeadline(p)
                    /\ LastSetOn(key, x) < p)
                      => h[c].out = encodeSimpleString(W_none)

\* the entry SET entry e of the history leaves in the store
EntryOfSet(e) ==
    cacheEntry(StringValue(e.cmd[3].Content),
               IF HasPx(e) THEN Instant(Deadline(e)) ELSE ZeroTime,
               ENTRY_STRING)

\* every entry the store holds is that of the most recent SET on its key
MostRecentSet ==
    \A k \in DOMAIN cache :
        /\ LastSetOn(k, Len(log)) > 0
        /\ cache[k] = EntryOfSet(log[LastSetOn(k, Len(log))])

\* handler c applies a SET in this step
SetStep(c) ==
    /\ pc[c] = "dispatch"
    /\ pc'[c] \in {"bcast", "reply"}
    /\ IsCommand([cmd |-> Cmd(c)], W_SET, 2)

\* C8: a SET leaves under its key its own value, the kind string and its own
\* expiration (none without PX, whatever the key held), and leaves the
\* entries of all other keys as they were.
C8_SetOverwrites ==
    /\ []MostRecentSet
    /\ [][\A c \in Conns :
            SetStep(c) =>
                LET cmd == Cmd(c)
                    key == cmd[2].Content
                    exp == IF Len(cmd) >= 5 /\ Atoi(cmd[5].Content).ok
                           THEN Instant(now + Atoi(cmd[5].Content).val)
                           ELSE ZeroTime
                IN  /\ DOMAIN cache' = DOMAIN cache \cup {key}
                    /\ cache'[key] = cacheEntry(StringValue(cmd[3].Content), exp,
                                                ENTRY_STRING)
                    /\ \A k \in DOMAIN cache \ {key} : cache'[k] = cache[k]]_vars

\* a SET without PX has overwritten key k, which had a deadline, while key j
\* held an entry with a deadline
C8_Witness ==
    /\ KeyK \in DOMAIN cache
    /\ cache[KeyK].exp.zero
    /\ KeyJ \in DOMAIN cache
    /\ ~cache[KeyJ].exp.zero
    /\ \E x, y, z \in 1..Len(log) :
          /\ x < z /\ y < z
          /\ IsSetOn(log[x], KeyK) /\ HasPx(log[x])
          /\ IsSetOn(log[y], KeyJ)
          /\ IsSetOn(log[z], KeyK) /\ ~HasPx(log[z])
          /\ LastSetOn(KeyK, Len(log)) = z

(***************************************************************************)
(* Stream.append on its own                                                *)
(***************************************************************************)

\* bounds of the streams handed to Stream.append
MaxMs == 2
MaxSeq == 2
MaxEntries == 2

\* streamId values
StreamIds == {[msTime |-> ms, sequenceNumber |-> seq] : ms \in 0..MaxMs, seq \in 0..MaxSeq}

\* streamId.String: "%d-%d"
StreamIdString(id) == Itoa(id.msTime) \o <<"-">> \o Itoa(id.sequenceNumber)

\* a is before b by (ms_time, sequence_number)
IdLess(a, b) ==
    \/ a.msTime < b.msTime
    \/ a.msTime = b.msTime /\ a.sequenceNumber < b.sequenceNumber

\* the entries are strictly increasing
Increasing(entries) ==
    \A x \in 1..(Len(entries) - 1) : IdLess(entries[x], entries[x + 1])

\* the Stream values append is called on
Streams ==
    {entries \in UNION {[1..n -> StreamIds] : n \in 0..MaxEntries} : Increasing(entries)}

\* no call yet on the Stream picked
InitStream ==
    /\ InitNode(MASTER, {})
    /\ fnIn \in {[entries |-> entries, id |-> [msTime |-> 0, sequenceNumber |-> 0],
                 input |-> <<>>] : entries \in Streams}
    /\ fnOut = [called |-> FALSE, ok |-> FALSE, entries |-> <<>>]

\* s.append(id.String()) on the Stream picked
CallAppend(id) ==
    LET input == StreamIdString(id)
        got == StreamAppend(fnIn.entries, input)
    IN  /\ fnIn' = [fnIn EXCEPT !.id = id, !.input = input]
        /\ fnOut' = [called |-> TRUE, ok |-> got.ok, entries |-> got.entries]
        /\ UNCHANGED <<node, cache, mu, now, crashed, pc, h, sock, reads, log>>

NextStream == \E id \in StreamIds : CallAppend(id)

SpecStream == InitStream /\ [][NextStream]_vars

\* C9: the entries of a stream are strictly increasing by (ms_time,
\* sequence_number); append on a non-empty stream succeeds exactly when the
\* new id is above the top (greater ms, or equal ms and greater sequence
\* number), and a failed append leaves the entries as they were.
C9_StreamMonotonic ==
    fnOut.called =>
        LET entries == fnIn.entries
            top == entries[Len(entries)]
        IN  /\ Increasing(fnOut.entries)
            /\ Len(entries) > 0 =>
                  (fnOut.ok <=> (\/ fnIn.id.msTime > top.msTime
                                 \/ /\ fnIn.id.msTime = top.msTime
                                    /\ fnIn.id.sequenceNumber > top.sequenceNumber))
            /\ ~fnOut.ok => fnOut.entries = entries

(***************************************************************************)
(* XADD on a master                                                        *)
(***************************************************************************)

KeyS == <<"s">>

\* the ids the clients send
XaddIds == {<<"1", "-", "1">>, <<"1", "-", "2">>, <<"0", "-", "9">>, <<"2", "-", "0">>}

\* the frames a client may send: XADD s <id>
XaddInputs(c) ==
    IF c \in {"c1", "c2"} THEN {encodeCmd(<<W_XADD, KeyS, id>>) : id \in XaddIds}
    ELSE {}

InitXadd == InitNode(MASTER, {"c1", "c2"}) /\ NoCall

XaddRead == \E c \in Conns : \E data \in XaddInputs(c) : Read(c, data)

NextXadd ==
    \/ XaddRead
    \/ \E c \in Conns : HandleStreamAdd(c)
    \/ \E c \in Conns : StreamAddSet(c)
    \/ \E c \in Conns : Reply(c)

SpecXadd == InitXadd /\ [][NextXadd]_vars

\* entry e of the history is an XADD with a key and an id
IsXadd(e) == IsCommand(e, W_XADD, 2)

\* the XADD at index x of the history has an id above those of all earlier
\* XADDs on its key, so above the top of the stream
AboveTop(x) ==
    \A y \in 1..(x - 1) :
        (IsXadd(log[y]) /\ log[y].cmd[2].Content = log[x].cmd[2].Content) =>
            IdLess(streamIdFromString(log[y].cmd[3].Content),
                   streamIdFromString(log[x].cmd[3].Content))

\* C10: every XADD is answered, with its id as a bulk string exactly when
\* the id is above the stream's top: after 1-1 and 1-2 the ids 1-2, 1-1 and
\* 0-9 are refused and 2-0 is accepted.
C10_XaddRejectsRegression ==
    /\ ~crashed
    /\ \A c \in Conns :
          (pc[c] = "reply" /\ IsXadd(log[Current(c)])) =>
              (h[c].out = encodeString(log[Current(c)].cmd[3].Content)
                  <=> AboveTop(Current(c)))

(***************************************************************************)
(* TYPE on a master: one client writes keys and probes them                *)
(***************************************************************************)

\* the frames the client may send
TypeInputs(c) ==
    IF c = "c1"
    THEN {encodeCmd(<<W_SET, KeyK, ValV>>),
          encodeCmd(<<W_XADD, KeyS, <<"1", "-", "1">>>>),
          encodeCmd(<<W_TYPE, KeyK>>),
          encodeCmd(<<W_TYPE, KeyS>>),
          encodeCmd(<<W_TYPE, KeyJ>>)}
    ELSE {}

InitType == InitNode(MASTER, {"c1"}) /\ NoCall

TypeRead == \E c \in Conns : \E data \in TypeInputs(c) : Read(c, data)

NextType ==
    \/ TypeRead
    \/ \E c \in Conns : HandleSet(c)
    \/ \E c \in Conns : FanoutBegin(c)
    \/ \E c \in Conns : HandleStreamAdd(c)
    \/ \E c \in Conns : StreamAddSet(c)
    \/ \E c \in Conns : HandleType(c)
    \/ \E c \in Conns : Reply(c)

SpecType == InitType /\ [][NextType]_vars

\* entry e of the history wrote key: a SET or an XADD on it
WroteKey(e, key) ==
    \/ IsSetOn(e, key)
    \/ IsXadd(e) /\ e.cmd[2].Content = key

\* the text TYPE owes for the key of the entry at index x of the history
TypeText(x) ==
    LET key == log[x].cmd[2].Content
        w == LastIndex(x - 1, LAMBDA e : WroteKey(e, key))
    IN  IF w = 0 THEN W_none
        ELSE IF IsSetOn(log[w], key) THEN W_string
        ELSE W_stream

\* C11: TYPE replies a SimpleString: none for a key never written, string
\* for a key last written by SET, stream for a key created by XADD.
C11_TypeReply ==
    \A c \in Conns :
        (pc[c] = "reply" /\ IsCommand(log[Current(c)], W_TYPE, 1)) =>
            h[c].out = encodeSimpleString(TypeText(Current(c)))

(***************************************************************************)
(* The codec on its own: EncodeResp, then ParseResp                        *)
(***************************************************************************)

\* the nil Content under a DataType: the null bulk string, the null array
NullResp(dataType) == [Content |-> <<>>, DataType |-> dataType, nil |-> TRUE]

\* frames that hold no frame
LeafFrames ==
    <<Resp(<<"O", "K">>, SIMPLE_STRING), Resp(<<>>, SIMPLE_STRING),
      Resp(<<"E", "R", "R">>, ERROR),
      Resp(0, INTEGER), Resp(5, INTEGER), Resp(0 - 12, INTEGER),
      BulkString(<<"k">>), BulkString(<<>>), NullResp(RESP_STRING)>>

\* the null array, the empty array, and arrays of depth 2 and 3
DeepFrames ==
    LET one == Resp(<<BulkString(<<"k">>)>>, ARRAY)
        none == Resp(<<>>, ARRAY)
    IN  <<NullResp(ARRAY), none,
          Resp(<<one>>, ARRAY), Resp(<<none>>, ARRAY), Resp(<<NullResp(ARRAY)>>, ARRAY),
          Resp(<<one, BulkString(<<"v">>)>>, ARRAY),
          Resp(<<Resp(<<one>>, ARRAY)>>, ARRAY),
          Resp(<<Resp(<<none>>, ARRAY), Resp(5, INTEGER)>>, ARRAY)>>

\* the frames handed to the codec, by shape: a leaf, an array of one leaf,
\* an array of two leaves, a deep frame
CodecShapes ==
    ({0, 1} \X (1..Len(LeafFrames)) \X {0})
        \cup ({2} \X (1..Len(LeafFrames)) \X (1..Len(LeafFrames)))
        \cup ({3} \X (1..Len(DeepFrames)) \X {0})

CodecFrame(s) ==
    CASE s[1] = 0 -> LeafFrames[s[2]]
      [] s[1] = 1 -> Resp(<<LeafFrames[s[2]]>>, ARRAY)
      [] s[1] = 2 -> Resp(<<LeafFrames[s[2]], LeafFrames[s[3]]>>, ARRAY)
      [] OTHER -> DeepFrames[s[2]]

InitCodec ==
    /\ InitNode(MASTER, {})
    /\ \E s \in CodecShapes : fnIn = [shape |-> s, frame |-> CodecFrame(s)]
    /\ fnOut = [called |-> FALSE, encoded |-> EncodeResp(ZeroResp),
                decoded |-> ParseResult(ZeroResp, 0, "")]

\* ParseResp on what EncodeResp made of the frame
CallCodec ==
    /\ ~fnOut.called
    /\ LET encoded == EncodeResp(fnIn.frame)
       IN  fnOut' = [called |-> TRUE, encoded |-> encoded,
                     decoded |-> IF encoded.panic THEN ParseResult(ZeroResp, 0, "")
                                 ELSE ParseResp(encoded.bytes)]
    /\ UNCHANGED <<node, cache, mu, now, crashed, pc, h, sock, reads, log, fnIn>>

NextCodec == CallCodec

SpecCodec == InitCodec /\ [][NextCodec]_vars

RECURSIVE SameFrame(_, _)
\* frames a and b are equal in kind and payload
SameFrame(a, b) ==
    /\ a.DataType = b.DataType
    /\ a.nil = b.nil
    /\ IF a.DataType = ARRAY
       THEN /\ Len(a.Content) = Len(b.Content)
            /\ \A x \in 1..Len(a.Content) : SameFrame(a.Content[x], b.Content[x])
       ELSE a.Content = b.Content

\* C12: for every frame of the set, decoding its encoding returns, with no
\* error, a frame equal to it in kind and payload.
C12_RoundTrip ==
    fnOut.called =>
        /\ ~fnOut.encoded.panic
        /\ ~fnOut.decoded.panic
        /\ fnOut.decoded.err = ""
        /\ SameFrame(fnOut.decoded.resp, fnIn.frame)

\* C13: for every well-formed frame at the head of a buffer, ParseResp
\* returns as its count the number of bytes the frame occupies.
C13_ExactConsumed ==
    (fnOut.called /\ ~fnOut.encoded.panic) =>
        /\ ~fnOut.decoded.panic
        /\ fnOut.decoded.err = ""
        /\ fnOut.decoded.n = Len(fnOut.encoded.bytes)

(***************************************************************************)
(* Pipelining on a master: reads that deliver several frames               *)
(***************************************************************************)

ValA == <<"a">>
ValB == <<"b">>

\* the commands a client sends, as lists of words
PipePing == <<W_PING>>
PipeEchoA == <<W_ECHO, ValA>>
PipeEchoB == <<W_ECHO, ValB>>
PipeSet == <<W_SET, KeyK, ValV>>

\* what one read delivers: command frames back to back
PipeSeqs(c) ==
    CASE c = "c1" -> {<<PipePing>>, <<PipeSet>>, <<PipePing, PipeEchoA>>,
                      <<PipeEchoA, PipeEchoB>>, <<PipeEchoB, PipeSet, PipePing>>}
      [] c = "c2" -> {<<PipeEchoB, PipePing>>}
      [] OTHER -> {}

RECURSIVE JoinFrames(_)
\* the bytes of the frames of the commands cs, back to back
JoinFrames(cs) ==
    IF cs = <<>> THEN <<>> ELSE encodeCmd(Head(cs)) \o JoinFrames(Tail(cs))

PipeInputs(c) == {JoinFrames(cs) : cs \in PipeSeqs(c)}

InitPipe == InitNode(MASTER, {"c1", "c2"}) /\ NoCall

PipeRead == \E c \in Conns : \E data \in PipeInputs(c) : Read(c, data)

NextPipe ==
    \/ PipeRead
    \/ \E c \in Conns : HandlePing(c)
    \/ \E c \in Conns : HandleEcho(c)
    \/ \E c \in Conns : HandleSet(c)
    \/ \E c \in Conns : FanoutBegin(c)
    \/ \E c \in Conns : Reply(c)

SpecPipe == InitPipe /\ [][NextPipe]_vars

RECURSIVE Sent(_, _)
\* the commands that the reads rs of connection c delivered, in order
Sent(c, rs) ==
    IF rs = <<>> THEN <<>>
    ELSE (CHOOSE cs \in PipeSeqs(c) : JoinFrames(cs) = Head(rs)) \o Sent(c, Tail(rs))

\* the arguments of the commands connection c had dispatched, in order
DispatchedOn(c) ==
    LET own == SelectSeq(log, LAMBDA e : e.conn = c)
    IN  [x \in 1..Len(own) |-> own[x].cmd]

\* words as handleCommand gets them: an array of bulk strings
AsCmd(words) == [x \in 1..Len(words) |-> BulkString(words[x])]

\* the reply a command is owed
ReplyOf(words) ==
    CASE words[1] = W_PING -> encodeSimpleString(W_PONG)
      [] words[1] = W_ECHO -> encodeString(words[2])
      [] OTHER -> encodeSimpleString(W_OK)

\* C14: on every connection the commands are dispatched once each in the
\* order the reads delivered them, none is left when the handler is back in
\* conn.Read, and the replies written are those of the commands, in order.
C14_PipelineOrder ==
    \A c \in Conns :
        LET sent == Sent(c, reads[c])
            done == DispatchedOn(c)
            replied == IF pc[c] \in {"bcast", "fanout", "reply"}
                       THEN Len(done) - 1 ELSE Len(done)
        IN  /\ ~crashed
            /\ Len(done) <= Len(sent)
            /\ \A x \in 1..Len(done) : done[x] = AsCmd(sent[x])
            /\ pc[c] = "read" => Len(done) = Len(sent)
            /\ Len(sock[c]) = replied
            /\ \A x \in 1..replied : sock[c][x] = ReplyOf(sent[x])

\* a read of three frames and a later read of two have been answered
C14_Witness ==
    /\ pc["c1"] = "read"
    /\ Len(reads["c1"]) >= 2
    /\ reads["c1"][1] = JoinFrames(<<PipeEchoB, PipeSet, PipePing>>)
    /\ reads["c1"][2] = JoinFrames(<<PipeEchoA, PipeEchoB>>)
    /\ Len(sock["c1"]) = 5

(***************************************************************************)
(* A byte stream that reaches the handler in pieces                        *)
(***************************************************************************)

\* the commands whose frames make the byte stream of a client
SplitCmds(c) == IF c = "c1" THEN <<PipePing, PipeEchoA>> ELSE <<>>

RECURSIVE Flat(_)
\* the bytes of the reads rs, joined
Flat(rs) == IF rs = <<>> THEN <<>> ELSE Head(rs) \o Flat(Tail(rs))

\* conn.Read returns the next bytes of the stream, as many as have arrived
SplitRead ==
    \E c \in Conns :
        LET stream == JoinFrames(SplitCmds(c))
            got == Len(Flat(reads[c]))
        IN  \E k \in 1..(Len(stream) - got) :
                Read(c, SubSeq(stream, got + 1, got + k))

InitSplit == InitNode(MASTER, {"c1"}) /\ NoCall

NextSplit ==
    \/ SplitRead
    \/ \E c \in Conns : HandlePing(c)
    \/ \E c \in Conns : HandleEcho(c)
    \/ \E c \in Conns : Reply(c)

SpecSplit == InitSplit /\ [][NextSplit]_vars

\* C15: however the stream is split into reads, the commands dispatched are
\* those of the stream, in order, and all of them once the whole stream has
\* been read and handled.
C15_SplitReads ==
    \A c \in Conns :
        LET sent == SplitCmds(c)
            done == DispatchedOn(c)
        IN  /\ ~crashed
            /\ Len(done) <= Len(sent)
            /\ \A x \in 1..Len(done) : done[x] = AsCmd(sent[x])
            /\ (pc[c] = "read" /\ Flat(reads[c]) = JoinFrames(sent))
                  => Len(done) = Len(sent)

(***************************************************************************)
(* Commands with too few arguments, and unknown commands                   *)
(***************************************************************************)

W_FOO == <<"F", "O", "O">>

\* the frames the client may send: each command short of arguments, an
\* unknown command, and PING
ShortCmds ==
    {<<W_ECHO>>, <<W_GET>>, <<W_SET, KeyK>>, <<W_CONFIG>>, <<W_INFO>>, <<W_REPLCONF>>,
     <<W_TYPE>>, <<W_XADD, KeyS>>, <<W_FOO, KeyK>>}

ArgsInputs(c) ==
    IF c = "c1" THEN {encodeCmd(words) : words \in ShortCmds \cup {<<W_PING>>}}
    ELSE {}

InitArgs == InitNode(MASTER, {"c1"}) /\ NoCall

ArgsRead == \E c \in Conns : \E data \in ArgsInputs(c) : Read(c, data)

NextArgs ==
    \/ ArgsRead
    \/ \E c \in Conns : HandlePing(c)
    \/ \E c \in Conns : HandleEcho(c)
    \/ \E c \in Conns : HandleGet(c)
    \/ \E c \in Conns : HandleSet(c)
    \/ \E c \in Conns : HandleConfig(c)
    \/ \E c \in Conns : HandleInfo(c)
    \/ \E c \in Conns : HandleReplConfig(c)
    \/ \E c \in Conns : HandleType(c)
    \/ \E c \in Conns : HandleStreamAdd(c)
    \/ \E c \in Conns : HandleUnknown(c)
    \/ \E c \in Conns : Reply(c)

SpecArgs == InitArgs /\ [][NextArgs]_vars

\* the PINGs among the commands connection c had dispatched
PingsOn(c) == SelectSeq(DispatchedOn(c), LAMBDA cmd : cmd = AsCmd(<<W_PING>>))

\* C16: a command short of arguments and an unknown command get no reply,
\* leave the store as it was and do not stop the handler or the process:
\* the PINGs around them are answered, and nothing else is written.
C16_ShortCommandsHarmless ==
    /\ ~crashed
    /\ DOMAIN cache = {}
    /\ \A c \in Conns :
          /\ \A x \in 1..Len(sock[c]) : sock[c][x] = encodeSimpleString(W_PONG)
          /\ Len(sock[c]) = Len(PingsOn(c)) - (IF pc[c] = "reply" /\ Cmd(c) = AsCmd(<<W_PING>>)
                                               THEN 1 ELSE 0)

(***************************************************************************)
(* Reads that hold bytes the decoder refuses                               *)
(***************************************************************************)

\* what a read may deliver, with the number of PING frames that precede its
\* first undecodable byte: an integer frame, an error frame, a byte that
\* opens no frame, a bulk string cut short, each alone or behind a PING
BadReads ==
    LET ping == encodeCmd(<<W_PING>>)
        bad == {<<INTEGER, "5", CR, LF>>, <<ERROR, "E", "R", "R", CR, LF>>,
                <<"!", "x">>, <<RESP_STRING, "3", CR, LF, "a">>}
    IN  {[data |-> b, pings |-> 0] : b \in bad}
            \cup {[data |-> ping \o b, pings |-> 1] : b \in bad}
            \cup {[data |-> ping, pings |-> 1]}

ErrInputs(c) == IF c = "c1" THEN {r.data : r \in BadReads} ELSE {}

InitErr == InitNode(MASTER, {"c1"}) /\ NoCall

ErrRead == \E c \in Conns : \E data \in ErrInputs(c) : Read(c, data)

NextErr ==
    \/ ErrRead
    \/ \E c \in Conns : HandlePing(c)
    \/ \E c \in Conns : Reply(c)

SpecErr == InitErr /\ [][NextErr]_vars

RECURSIVE PingsIn(_)
\* the number of PING frames the reads rs hold before their undecodable bytes
PingsIn(rs) ==
    IF rs = <<>> THEN 0
    ELSE (CHOOSE r \in BadReads : r.data = Head(rs)).pings + PingsIn(Tail(rs))

\* C17: undecodable bytes end the handling of their read and of nothing
\* else: no crash, the PINGs before them and in later reads are dispatched
\* and answered, and nothing else is written.
C17_ParseErrorRecovery ==
    /\ ~crashed
    /\ \A c \in Conns :
          /\ \A x \in 1..Len(sock[c]) : sock[c][x] = encodeSimpleString(W_PONG)
          /\ Len(PingsOn(c)) = Len(DispatchedOn(c))
          /\ pc[c] = "read" =>
                /\ Len(DispatchedOn(c)) = PingsIn(reads[c])
                /\ Len(sock[c]) = PingsIn(reads[c])

(***************************************************************************)
(* Commands on a key of the other kind                                     *)
(***************************************************************************)

\* the frames the client may send
KindInputs(c) ==
    IF c = "c1"
    THEN {encodeCmd(<<W_SET, KeyK, ValV>>),
          encodeCmd(<<W_XADD, KeyS, <<"1", "-", "1">>>>),
          encodeCmd(<<W_GET, KeyK>>),
          encodeCmd(<<W_GET, KeyS>>),
          encodeCmd(<<W_XADD, KeyK, <<"1", "-", "1">>>>)}
    ELSE {}

InitKind == InitNode(MASTER, {"c1"}) /\ NoCall

KindRead == \E c \in Conns : \E data \in KindInputs(c) : Read(c, data)

NextKind ==
    \/ KindRead
    \/ \E c \in Conns : HandleSet(c)
    \/ \E c \in Conns : FanoutBegin(c)
    \/ \E c \in Conns : HandleStreamAdd(c)
    \/ \E c \in Conns : StreamAddSet(c)
    \/ \E c \in Conns : HandleGet(c)
    \/ \E c \in Conns : Reply(c)

SpecKind == InitKind /\ [][NextKind]_vars

\* the entry at index x of the history is a GET on a key that XADD wrote
\* last, or an XADD on a key that SET wrote last
WrongKind(x) ==
    LET key == log[x].cmd[2].Content
        w == LastIndex(x - 1, LAMBDA e : WroteKey(e, key))
    IN  /\ w > 0
        /\ \/ IsCommand(log[x], W_GET, 1) /\ IsXadd(log[w])
           \/ IsXadd(log[x]) /\ IsSetOn(log[w], key)

\* C18: a GET on a stream and an XADD on a string do not end the process,
\* are answered with an Error frame or with nothing, and leave the entry of
\* the key as it was.
C18_WrongKindFailsCleanly ==
    \A c \in Conns :
        LET x == Current(c)
            key == log[x].cmd[2].Content
        IN  (x > 0 /\ Len(log[x].cmd) >= 2 /\ WrongKind(x) /\ pc[c] # "read") =>
                /\ ~crashed
                /\ pc[c] = "reply" => (h[c].out = <<>> \/ h[c].out[1] = ERROR)
                /\ key \in DOMAIN cache
                /\ cache[key].entryType =
                       (IF IsXadd(log[x]) THEN ENTRY_STRING ELSE ENTRY_STREAM)

(***************************************************************************)
(* Fanout on a master whose replicas may go away                           *)
(***************************************************************************)

\* the frames a peer may send: r1 and c2 register as replicas, c1 is a client
FanoutInputs(c) ==
    CASE c = "c1" -> {encodeCmd(<<W_SET, KeyK, ValV>>),
                      encodeCmd(<<W_WAIT, <<"0">>, <<"0">>>>),
                      encodeCmd(<<W_WAIT, <<"3">>, <<"9">>>>)}
      [] c \in {"r1", "c2"} -> {encodeCmd(<<W_PSYNC, <<"?">>, <<"-", "1">>>>)}
      [] OTHER -> {}

InitFanout == InitNode(MASTER, {"c1", "c2", "r1"}) /\ NoCall

FanoutRead == \E c \in Conns : \E data \in FanoutInputs(c) : Read(c, data)

NextFanout ==
    \/ FanoutRead
    \/ \E c \in {"r1", "c2"} : ReadFails(c)
    \/ \E c \in Conns : HandleSet(c)
    \/ \E c \in Conns : FanoutBegin(c)
    \/ \E c \in Conns : FanoutWrite(c)
    \/ \E c \in Conns : HandleSync(c)
    \/ \E c \in Conns : SyncAppend(c)
    \/ \E c \in Conns : HandleWait(c)
    \/ \E c \in Conns : Reply(c)

SpecFanout == InitFanout /\ [][NextFanout]_vars

\* handler c has fanned out a SET and is about to reply
AfterFanout(c) == pc[c] = "reply" /\ IsCommand(log[Current(c)], W_SET, 2)

\* the frame of the SET of handler c is among the writes made to r
GotFrame(c, r) == \E y \in 1..Len(sock[r]) : sock[r][y] = Bcast(Args(c))

\* C19: whatever writes of the fanout failed, the SET is in the store, the
\* frame was written to every replica of the list whose socket is open, and
\* the reply is +OK.
C19_FanoutBestEffort ==
    \A c \in Conns :
        AfterFanout(c) =>
            LET cmd == Args(c)
            IN  /\ cmd[1].Content \in DOMAIN cache
                /\ cache[cmd[1].Content].value = StringValue(cmd[2].Content)
                /\ h[c].out = encodeSimpleString(W_OK)
                /\ \A x \in 1..Len(h[c].reps) :
                      pc[h[c].reps[x]] # "closed" => GotFrame(c, h[c].reps[x])

\* the write to the first replica of the list failed, the second has the frame
C19_Witness ==
    /\ AfterFanout("c1")
    /\ Len(h["c1"].reps) = 2
    /\ pc[h["c1"].reps[1]] = "closed"
    /\ ~GotFrame("c1", h["c1"].reps[1])
    /\ GotFrame("c1", h["c1"].reps[2])
    /\ KeyK \in DOMAIN cache

\* C20: once the fanout of a SET has failed to write to a replica whose
\* socket is closed, that socket is no longer in the replica list.
C20_LazyRemoval ==
    \A c \in Conns :
        AfterFanout(c) =>
            \A x \in 1..Len(h[c].reps) :
                (pc[h[c].reps[x]] = "closed" /\ ~GotFrame(c, h[c].reps[x])) =>
                    \A y \in 1..Len(node.replicas) : node.replicas[y] # h[c].reps[x]

\* connection c enters the append of handleCommandSync in this step
EntersAppend(c) == pc[c] # "sync_append" /\ pc'[c] = "sync_append"

\* C21: the replica list of a master changes only when a PSYNC whose
\* FULLRESYNC line was written completes, which extends the list it read by
\* its own connection; WAIT replies the length of the list as an Integer,
\* whatever its arguments.
C21_RegistrationAndWait ==
    [][/\ node'.replicas # node.replicas =>
             \E c \in Conns :
                 /\ pc[c] = "sync_append" /\ pc'[c] = "reply"
                 /\ IsCommand(log[Current(c)], W_PSYNC, 0)
                 /\ node'.replicas = Append(h[c].reps, c)
       /\ \A c \in Conns :
             EntersAppend(c) =>
                 /\ Dispatching(c, W_PSYNC)
                 /\ sock'[c] = Append(sock[c], Resync)
       /\ \A c \in Conns :
             (pc[c] = "dispatch" /\ pc'[c] = "reply" /\ IsCommand([cmd |-> Cmd(c)], W_WAIT, 0))
                 => h'[c].out = encodeInt(Len(node.replicas))]_vars

\* two replicas are registered and a WAIT is answered with 2
C21_Witness ==
    /\ Len(node.replicas) = 2
    /\ \E c \in Conns :
          /\ pc[c] = "reply"
          /\ IsCommand(log[Current(c)], W_WAIT, 2)
          /\ log[Current(c)].cmd[2].Content = <<"3">>
          /\ h[c].out = <<INTEGER, "2", CR, LF>>

\* handler c performs the delete of handleCommandGet in this step
DeleteStep(c) == pc[c] = "expire" /\ pc'[c] = "reply"

\* the command at index i of the history has been answered: its handler is
\* reading again or has gone on to a later command
Answered(i) ==
    LET c == log[i].conn
    IN  Current(c) > i \/ pc[c] \in {"read", "closed"}

\* C22: the delete of a GET that saw key k past its deadline leaves in the
\* store the value of a SET on k that was applied, and answered, after the
\* GET looked and before the delete.
C22_ExpiryKeepsLiveData ==
    [][\A c \in Conns :
          DeleteStep(c) =>
              LET key == Args(c)[1].Content
                  s == LastSetOn(key, Len(log))
              IN  (s > Current(c) /\ Answered(s)) =>
                      /\ key \in DOMAIN cache'
                      /\ cache'[key] = EntryOfSet(log[s])]_vars

\* the RDB frame that ends a PSYNC has been written to connection r
Synced(r) == \E x \in 1..Len(sock[r]) : sock[r][x] = EncodeRdb(EMPTY_RDB)

\* C23: every connection whose PSYNC has been answered is in the replica
\* list, also when two PSYNCs are handled at the same time.
C23_NoLostRegistration ==
    \A r \in Conns :
        Synced(r) => \E x \in 1..Len(node.replicas) : node.replicas[x] = r

\* the entries of the Stream the store holds under key, whether the map's
\* value is the Stream or the cacheEntry that carries it
StoredEntries(key) ==
    LET v == cache[key].value
    IN  IF v.kind = "Stream" THEN v.entries
        ELSE IF v.kind = "cacheEntry" /\ v.entry.value.kind = "Stream"
        THEN v.entry.value.entries
        ELSE <<>>

\* C24: when an XADD is about to reply its id, the stream stored under its
\* key ends with that id.
C24_XaddPersists ==
    \A c \in Conns :
        (/\ pc[c] = "reply"
         /\ IsXadd(log[Current(c)])
         /\ h[c].out = encodeString(log[Current(c)].cmd[3].Content)
         /\ \A y \in (Current(c) + 1)..Len(log) : ~IsXadd(log[y])) =>
            LET key == log[Current(c)].cmd[2].Content
            IN  /\ key \in DOMAIN cache
                /\ Len(StoredEntries(key)) > 0
                /\ StoredEntries(key)[Len(StoredEntries(key))]
                       = streamIdFromString(log[Current(c)].cmd[3].Content)

\* handler c answers a TYPE in this step
TypeStep(c) ==
    /\ pc[c] = "dispatch"
    /\ pc'[c] = "reply"
    /\ IsCommand([cmd |-> Cmd(c)], W_TYPE, 1)

\* C25: a TYPE on a key whose last SET had a deadline that has passed
\* replies none.
C25_TypeHonoursExpiration ==
    [][\A c \in Conns :
          TypeStep(c) =>
              LET s == LastSetOn(Cmd(c)[2].Content, Len(log))
              IN  (s > 0 /\ HasPx(log[s]) /\ now > Deadline(log[s])) =>
                      h'[c].out = encodeSimpleString(W_none)]_vars

(***************************************************************************)
(* A replica whose master writes REPLCONF GETACK in any letter case        *)
(***************************************************************************)

\* the frames the master may send: GETACK in four spellings, and a SET
CaseInputs(c) ==
    IF c = MasterLink
    THEN {GetAckFrame,
          encodeCmd(<<W_REPLCONF, W_getack, <<"*">>>>),
          encodeCmd(<<ToLower(W_REPLCONF), W_GETACK, <<"*">>>>),
          encodeCmd(<<ToLower(W_REPLCONF), W_getack, <<"*">>>>),
          encodeCmd(<<W_SET, KeyK, ValV>>)}
    ELSE {}

InitCase == InitNode(SLAVE, {MasterLink}) /\ NoCall

CaseRead == \E c \in Conns : \E data \in CaseInputs(c) : Read(c, data)

NextCase ==
    \/ CaseRead
    \/ \E c \in Conns : HandleSet(c)
    \/ \E c \in Conns : HandleReplConfig(c)
    \/ \E c \in Conns : Reply(c)
    \/ \E c \in Conns : OffsetStore(c)

SpecCase == InitCase /\ [][NextCase]_vars

\* entry e of the history is a command the dispatcher handles as REPLCONF
\* GETACK
HandledAsGetAck(e) ==
    /\ IsCommand(e, W_REPLCONF, 1)
    /\ IsGoString(e.cmd[2])
    /\ ToLower(e.cmd[2].Content) = W_getack

\* C26: when the handler of the master link leaves a command that the
\* dispatcher handled as REPLCONF GETACK, its REPLCONF ACK reply has been
\* written to the master.
C26_GateAgreesWithDispatcher ==
    [][(/\ pc[MasterLink] = "reply"
        /\ pc'[MasterLink] # "reply"
        /\ HandledAsGetAck(log[Current(MasterLink)])) =>
            /\ IsAckReply(h[MasterLink].out)
            /\ sock'[MasterLink] = Append(sock[MasterLink], h[MasterLink].out)]_vars

(***************************************************************************)
(* The store's mutex: a master, two clients and a replica, with the calls  *)
(* of Lock and RLock as steps of their own                                 *)
(***************************************************************************)

\* the next statement of handler c is the Lock() of setKey or of deleteKey
AtLock(c) ==
    \/ Dispatching(c, W_SET) /\ StoreArgs(c, 2)
    \/ pc[c] \in {"expire", "xadd_set"}

\* the next statement of handler c is the RLock() of getKey
AtRLock(c) ==
    \/ Dispatching(c, W_GET) /\ StoreArgs(c, 1)
    \/ Dispatching(c, W_TYPE) /\ StoreArgs(c, 1)
    \/ Dispatching(c, W_XADD) /\ StoreArgs(c, 2)

\* c.RWMutex.Lock() in setKey and deleteKey
Lock(c) ==
    /\ ~crashed
    /\ AtLock(c)
    /\ ~Holds(c)
    /\ CanLock(c)
    /\ mu' = [mu EXCEPT !.w = c]
    /\ UNCHANGED <<node, cache, now, crashed, pc, h, sock, reads, log, fnVars>>

\* c.RWMutex.RLock() in getKey
RLock(c) ==
    /\ ~crashed
    /\ AtRLock(c)
    /\ ~Holds(c)
    /\ CanRLock(c)
    /\ mu' = [mu EXCEPT !.r = @ \cup {c}]
    /\ UNCHANGED <<node, cache, now, crashed, pc, h, sock, reads, log, fnVars>>

LockInputs(c) ==
    CASE c = "c1" -> {encodeCmd(<<W_SET, KeyK, ValV>>),
                      encodeCmd(<<W_GET, KeyK>>)}
      [] c = "c2" -> {encodeCmd(<<W_SET, KeyK, ValW>>)}
      [] c = "r1" -> {encodeCmd(<<W_PSYNC, <<"?">>, <<"-", "1">>>>)}
      [] OTHER -> {}

InitLock == InitNode(MASTER, {"c1", "c2", "r1"}) /\ NoCall

LockRead == \E c \in Conns : \E data \in LockInputs(c) : Read(c, data)

NextLock ==
    \/ LockRead
    \/ \E c \in Conns : Lock(c)
    \/ \E c \in Conns : RLock(c)
    \/ \E c \in Conns : HandleSet(c)
    \/ \E c \in Conns : FanoutBegin(c)
    \/ \E c \in Conns : FanoutWrite(c)
    \/ \E c \in Conns : HandleGet(c)
    \/ \E c \in Conns : HandleSync(c)
    \/ \E c \in Conns : SyncAppend(c)
    \/ \E c \in Conns : Reply(c)

SpecLock == InitLock /\ [][NextLock]_vars

\* handler c waits in conn.Read or is about to write to a socket
InSocketIO(c) ==
    \/ pc[c] \in {"read", "reply", "fanout"}
    \/ Dispatching(c, W_PSYNC)

\* handler c takes a step that reads or writes a socket
SocketStep(c) ==
    /\ pc'[c] # pc[c] \/ h'[c] # h[c]
    /\ sock' # sock \/ reads' # reads

\* C27: a handler that is reading or writing a socket holds the store's
\* mutex in neither mode, and a handler that waits for the mutex waits for
\* one that is at its map operation, not at a socket.
C27_NoLockAcrossIO ==
    /\ [](\A c \in Conns : InSocketIO(c) => ~Holds(c))
    /\ [](\A d \in Conns :
             ((AtLock(d) /\ ~CanLock(d)) \/ (AtRLock(d) /\ ~CanRLock(d))) =>
                 \A e \in Conns : Holds(e) => (AtLock(e) \/ AtRLock(e)))
    /\ [][\A c \in Conns : SocketStep(c) => (~Holds(c) /\ mu' = mu)]_vars

\* c1 is writing the frame of its SET to the replica while c2 holds the
\* mutex to write
C27_Witness ==
    /\ pc["c1"] = "fanout"
    /\ Len(h["c1"].reps) > 0
    /\ mu.w = "c2"

(***************************************************************************)
(* A replica from its start: connectToMaster, then the handler of the link *)
(***************************************************************************)

W_psync2 == <<"p", "s", "y", "n", "c", "2">>

\* node.port of the replica
Port == <<"6", "3", "8", "0">>

\* the four commands connectToMaster writes, in the order of its statements
HandshakeCmds ==
    <<encodeCmd(<<W_PING>>),
      encodeCmd(<<W_REPLCONF, W_listening_port, Port>>),
      encodeCmd(<<W_REPLCONF, W_capa, W_psync2>>),
      encodeCmd(<<W_PSYNC, <<"?">>, <<"-", "1">>>>)>>

\* connectToMaster: the next conn.Write; h[c].idx counts the commands
\* written.  After the fourth, handleClientConn(conn, true) starts.
ConnectWrite(c) ==
    /\ ~crashed
    /\ fromMaster(c)
    /\ node.role = SLAVE
    /\ pc[c] \in {"off", "hs_write"}
    /\ sock' = [sock EXCEPT ![c] = Append(@, HandshakeCmds[h[c].idx + 1])]
    /\ IF h[c].idx + 1 = Len(HandshakeCmds)
       THEN /\ pc' = [pc EXCEPT ![c] = "read"]
            /\ h' = [h EXCEPT ![c] = Idle]
       ELSE /\ pc' = [pc EXCEPT ![c] = "hs_read"]
            /\ h' = [h EXCEPT ![c].idx = @ + 1]
    /\ UNCHANGED <<node, cache, mu, now, crashed, reads, log, fnVars>>

\* connectToMaster: conn.Read(response) returns; what it read is not used
ConnectRead(c) ==
    /\ ~crashed
    /\ pc[c] = "hs_read"
    /\ pc' = [pc EXCEPT ![c] = "hs_write"]
    /\ UNCHANGED <<node, cache, mu, now, crashed, h, sock, reads, log, fnVars>>

\* the frame of the SET the master fans out
SyncSet == encodeCmd(<<W_SET, KeyK, ValV>>)

\* what the master sends once it has the PSYNC
SyncStream == MasterResync \o MasterRdb \o SyncSet

\* the frame boundaries of SyncStream
SyncEnds ==
    {Len(MasterResync), Len(MasterResync) + Len(MasterRdb), Len(SyncStream)}

\* conn.Read on the link returns the frames that have arrived, whole
SyncRead ==
    LET got == Len(Flat(reads[MasterLink]))
    IN  \E e \in SyncEnds :
            /\ e > got
            /\ Read(MasterLink, SubSeq(SyncStream, got + 1, e))

\* a client of the replica
SyncInputs(c) == IF c = "c1" THEN {encodeCmd(<<W_PING>>)} ELSE {}

ClientRead == \E c \in Conns : \E data \in SyncInputs(c) : Read(c, data)

InitSync == InitNode(SLAVE, {"c1"}) /\ NoCall

NextSync ==
    \/ \E c \in Conns : ConnectWrite(c)
    \/ \E c \in Conns : ConnectRead(c)
    \/ SyncRead
    \/ ClientRead
    \/ \E c \in Conns : HandleSet(c)
    \/ \E c \in Conns : HandlePing(c)
    \/ \E c \in Conns : Reply(c)
    \/ \E c \in Conns : OffsetStore(c)

SpecSync == InitSync /\ [][NextSync]_vars

\* the link's handler has read the whole stream and every handler waits in
\* conn.Read
SyncDone ==
    /\ Len(Flat(reads[MasterLink])) = Len(SyncStream)
    /\ \A c \in Conns : pc[c] \in {"read", "off"}

\* C28: the replica writes the four handshake commands in order, each after
\* the read that follows the one before; once it has read FULLRESYNC, the
\* RDB frame and SET k v, in one read or several, it holds k = v, has
\* written nothing but the handshake to the link, and its offset is the
\* length of the SET frame.
C28_EndToEnd ==
    /\ Len(sock[MasterLink]) <= Len(HandshakeCmds)
    /\ sock[MasterLink] = SubSeq(HandshakeCmds, 1, Len(sock[MasterLink]))
    /\ pc[MasterLink] \in {"hs_read", "hs_write"} => Len(sock[MasterLink]) = h[MasterLink].idx
    /\ pc[MasterLink] = "off" => sock[MasterLink] = <<>>
    /\ reads[MasterLink] # <<>> => Len(sock[MasterLink]) = Len(HandshakeCmds)
    /\ SyncDone =>
          /\ ~crashed
          /\ KeyK \in DOMAIN cache
          /\ cache[KeyK] = cacheEntry(StringValue(ValV), ZeroTime, ENTRY_STRING)
          /\ node.offset = Len(SyncSet)

\* C29: the replica list holds each connection at most once, and a node
\* whose role is replica has written no SET frame to any socket.
C29_ExactlyOnceFanout ==
    /\ \A x, y \in 1..Len(node.replicas) :
          node.replicas[x] = node.replicas[y] => x = y
    /\ node.role = SLAVE =>
          \A c \in Conns : \A x \in 1..Len(sock[c]) :
              sock[c][x] \notin {Bcast(Tail(e.cmd)) :
                                   e \in {log[z] : z \in {z \in 1..Len(log) :
                                                            IsCommand(log[z], W_SET, 2)}}}

====
